---- MODULE Spec2Model ----
(***************************************************************************)
(* Model of the task orchestration engine of pocket-agent-os:              *)
(* the implementation flow (core/flows/implementation.py), its nodes       *)
(* (core/nodes/*.py) and the driver (scripts/run-flow.py).                 *)
(*                                                                         *)
(* The shared store of a run is the tuple of variables below; an action    *)
(* is one node of the flow (prep + exec + post) or one driver step.        *)
(***************************************************************************)
EXTENDS Integers, Sequences, FiniteSets, TLC

\* ---------------------------------------------------------------- bounds
\* number of tasks of the backlog
NumTasks == 2
\* priorities are drawn from 0..MaxPriority
MaxPriority == 1
\* a task names at most MaxDeps dependencies
MaxDeps == 1
\* lists that only grow (failed, completion_log, delegation_history) are
\* counted per task id and the count saturates at MaxEntries
MaxEntries == 2
\* number of driver invocations (runs of run-flow.py implement) per behaviour
MaxRuns == 2

\* ---------------------------------------------------------------- values
TaskIds == 1 .. NumTasks

\* id of "no task" (Python None in current_task)
NoId == 0

Modes == {"batch", "print", "file", "cli"}

\* ProgressGuardNode.__init__: default required phases, in order
RequiredPhases == <<"spec", "implement", "verify">>

\* Python None for progress["current_phase"]
NoPhase == "none"

\* a task dict of progress["tasks"]
TaskRec ==
    [id : TaskIds,
     priority : 0 .. MaxPriority,
     depends_on : {D \in SUBSET TaskIds : Cardinality(D) <= MaxDeps},
     retry : BOOLEAN]

\* shared["current_task"] = None
NoTask == [id |-> NoId, priority |-> 0, depends_on |-> {}, retry |-> FALSE]

\* shared["task_filter"]: absent, or a string; a string filter is modelled by
\* the set of task ids whose str(task).lower() contains it
NoFilter == [active |-> FALSE, matches |-> {}]

Filters == {NoFilter} \cup {[active |-> TRUE, matches |-> S] : S \in SUBSET TaskIds}

Range(s) == {s[i] : i \in DOMAIN s}

\* n + 1, saturating at MaxEntries (length of an append-only list, capped)
Bump(n) == IF n < MaxEntries THEN n + 1 ELSE MaxEntries

\* ids present in a list kept as a count per id
Members(cnt) == {i \in DOMAIN cnt : cnt[i] > 0}

ZeroCount == [i \in TaskIds |-> 0]

VARIABLES
    mode,               \* args.mode = shared["delegation_mode"]
    auto_checkpoint,    \* not args.no_checkpoint
    self_improve,       \* not args.no_improve
    pc,                 \* node of the flow about to run, or driver position
    prev,               \* the node that ran last
    action,             \* outcome label that node emitted
    run,                \* number of driver invocations started
    progress,           \* shared["progress"]
    current_task,       \* shared["current_task"]
    printed_tasks,      \* shared["printed_tasks"]
    task_filter,        \* shared["task_filter"]
    success,            \* shared["success"] (absent = TRUE)
    delegation,         \* shared["delegation"]: task_id, executed
    delegation_history, \* shared["delegation_history"], count per task id
    phase_valid,        \* shared["phase_valid"], shared["missing_phases"]
    session_file,       \* agent-os/sessions/<session_id>.json
    progress_file,      \* agent-os/specs/<spec>/progress.json
    tasks_md,           \* agent-os/specs/<spec>/tasks.md
    interrupted         \* progress at the last KeyboardInterrupt (history)

\* the shared store and the files of a run of the implementation flow
flowVars == <<mode, auto_checkpoint, self_improve, pc, prev, action, run, progress,
              current_task, printed_tasks, task_filter, success, delegation,
              delegation_history, phase_valid, session_file, progress_file,
              tasks_md, interrupted>>

VARIABLES
    clock,              \* wall clock in whole seconds (datetime.now() as %Y%m%d_%H%M%S)
    seq,                \* number of FileStore.save / checkpoint calls so far; orders mtimes
    store_cfg,          \* FileStore.__init__: auto_backup, max_backups
    primary,            \* <base_path>/<session_id>.json
    backup_dir,         \* files of <base_path>/backups/
    mem,                \* the context handed to the running or last save()
    op_pc,              \* position inside the running save(), or "idle"
    result,             \* what the last finished FileStore call returned
    primary_at_call,    \* primary file when the running or last save() was called (history)
    crash_at,           \* position at which the last save() was killed (history)
    saves,              \* number of save() calls that returned True (history)
    clean               \* only save() calls so far, none failed or was killed (history)

storeVars == <<clock, seq, store_cfg, primary, backup_dir, mem, op_pc, result,
               primary_at_call, crash_at, saves, clean>>

VARIABLES
    router_rules,       \* AgentSelectorNode.default_rules["agents"], in dict order
    route_in,           \* inputs of the last exec call of the router
    route_out           \* RoutingDecision of the last exec call

routerVars == <<router_rules, route_in, route_out>>

VARIABLES
    shared_phase,       \* shared["current_phase"], or "absent"
    spec_tasks,         \* shared["tasks"] of the specification flow
    spec_errors,        \* shared["spec_errors"]
    spec_files,         \* files of the spec folder written by SaveSpecNode
    session_resumed     \* shared["session"]["resumed"], or "unset"

auxVars == <<shared_phase, spec_tasks, spec_errors, spec_files, session_resumed>>

vars == <<flowVars, storeVars, routerVars, auxVars>>

\* ------------------------------------------------------- TaskSelectorNode
\* progress["completed"] is a list; it is kept as a count per id so that a
\* duplicate append would show
CompletedSet(p) == Members(p.completed)

\* TaskSelectorNode.prep: ids of progress["failed"] entries
FailedIds(p) == Members(p.failed)

\* unmet = [dep for dep in dependencies if dep not in completed]
UnmetAlwaysNone(t, done) == {}

Unmet(t, done) == {d \in t.depends_on : d \notin done}

\* isinstance(task_filter, str): task_filter.lower() in str(task).lower()
FilterRejects(f, t) == f.active /\ t.id \notin f.matches

\* body of the for loop of TaskSelectorNode.exec: where the task ends up
ClassifyDepsNeverMet(t, done, failedIds, printed, m, f) ==
    IF t.id \in done THEN "completed"
    ELSE IF m = "batch" /\ t.id \in printed THEN "printed"
    ELSE IF t.id \in failedIds /\ ~t.retry THEN "failed"
    ELSE IF FilterRejects(f, t) THEN "filtered"
    ELSE IF t.depends_on # {} THEN "blocked"
    ELSE "available"

ClassifyFailedAdmitted(t, done, failedIds, printed, m, f) ==
    IF t.id \in done THEN "completed"
    ELSE IF m = "batch" /\ t.id \in printed THEN "printed"
    ELSE IF FilterRejects(f, t) THEN "filtered"
    ELSE IF Unmet(t, done) # {} THEN "blocked"
    ELSE "available"

Classify(t, done, failedIds, printed, m, f) ==
    IF t.id \in done THEN "completed"
    ELSE IF m = "batch" /\ t.id \in printed THEN "printed"
    ELSE IF t.id \in failedIds /\ ~t.retry THEN "failed"
    ELSE IF FilterRejects(f, t) THEN "filtered"
    ELSE IF Unmet(t, done) # {} THEN "blocked"
    ELSE "available"

\* the sub-list of tasks with a given classification, in backlog order
Classified(ts, done, failedIds, printed, m, f, class) ==
    SelectSeq(ts, LAMBDA t : Classify(t, done, failedIds, printed, m, f) = class)

\* tasks.index(t): first position holding an equal dict
IndexOf(ts, t) == CHOOSE i \in DOMAIN ts : ts[i] = t /\ \A j \in 1 .. i - 1 : ts[j] # t

\* key=lambda t: (-t.get("priority", 0), tasks.index(t)), compared as tuples
KeyLessLowPriorityFirst(ts, a, b) ==
    \/ a.priority < b.priority
    \/ a.priority = b.priority /\ IndexOf(ts, a) < IndexOf(ts, b)

KeyLess(ts, a, b) ==
    \/ -a.priority < -b.priority
    \/ a.priority = b.priority /\ IndexOf(ts, a) < IndexOf(ts, b)

\* list.sort is stable: repeatedly take the first element no other element
\* is strictly below
RECURSIVE SortByKey(_, _)
SortByKey(ts, s) ==
    IF s = <<>> THEN <<>>
    ELSE LET i == CHOOSE k \in DOMAIN s :
                      /\ \A j \in DOMAIN s : ~KeyLess(ts, s[j], s[k])
                      /\ \A j \in 1 .. k - 1 : KeyLess(ts, s[k], s[j])
             rest == [j \in 1 .. Len(s) - 1 |-> IF j < i THEN s[j] ELSE s[j + 1]]
         IN <<s[i]>> \o SortByKey(ts, rest)

\* TaskSelectorNode.exec
SelectExec(ts, done, failedIds, printed, m, f) ==
    LET available == Classified(ts, done, failedIds, printed, m, f, "available")
        blocked == Classified(ts, done, failedIds, printed, m, f, "blocked")
        printedNotComplete == Classified(ts, done, failedIds, printed, m, f, "printed")
    IN [selected_task |-> IF available # <<>> THEN Head(SortByKey(ts, available)) ELSE NoTask,
        remaining_count |-> Len(available) + Len(blocked),
        blocked_count |-> Len(blocked),
        printed_count |-> Len(printedNotComplete),
        all_printed |-> m = "batch" /\ Len(printedNotComplete) > 0 /\ Len(available) = 0]

\* TaskSelectorNode.post: the outcome label
SelectOutcomeBlockedFirst(res) ==
    IF res.selected_task # NoTask THEN "task_selected"
    ELSE IF res.blocked_count > 0 THEN "all_blocked"
    ELSE IF res.all_printed THEN "all_printed"
    ELSE "all_complete"

SelectOutcome(res) ==
    IF res.selected_task # NoTask THEN "task_selected"
    ELSE IF res.all_printed THEN "all_printed"
    ELSE IF res.blocked_count > 0 THEN "all_blocked"
    ELSE "all_complete"

\* ------------------------------------------------------------- progress
\* SessionStartNode.post: the progress used when progress.json is absent
EmptyProgress ==
    [tasks |-> <<>>,
     completed |-> ZeroCount,
     failed |-> ZeroCount,
     completion_log |-> ZeroCount,
     current_task |-> NoId,
     current_phase |-> NoPhase,
     completed_phases |-> {}]

NoFile == [exists |-> FALSE, content |-> EmptyProgress]

\* the part of a saved shared store that a later run reads back
NoSession ==
    [exists |-> FALSE, full |-> FALSE, progress |-> EmptyProgress,
     delegation_history |-> ZeroCount, printed_tasks |-> {},
     success |-> TRUE, task_filter |-> NoFilter]

NoDelegation == [task_id |-> NoId, executed |-> FALSE]

NoInterrupt == [happened |-> FALSE, progress |-> EmptyProgress]

\* ------------------------------------------------------ ProgressGuardNode
\* required.index(current), for current in required
PhaseIndex(required, current) == CHOOSE i \in DOMAIN required : required[i] = current

\* ProgressGuardNode.exec: the phases before `current` that are not completed
MissingPhasesNone(required, current, donePhases) == {}

MissingPhases(required, current, donePhases) ==
    IF current \in Range(required)
    THEN {required[i] : i \in {j \in 1 .. PhaseIndex(required, current) - 1 :
                                   required[j] \notin donePhases}}
    ELSE {}

\* ProgressGuardNode.post: the outcome label
GuardOutcome(missing) == IF missing = {} THEN "valid" ELSE "blocked"

\* ------------------------------------------------- create_implementation_flow
\* the flow has stopped: flow.run(shared) returns to the driver
FlowDone == "flow_done"

FlowNodes ==
    {"session_start", "load_expertise", "task_selector", "progress_guard",
     "agent_router", "delegation", "result_processor", "mark_complete",
     "self_improver", "checkpoint", "session_end"}

\* `a - "x" >> b if c else d` parses as `(a - "x" >> b) if c else d`: with c
\* false no edge is added at all
OptionalEdges(node, act, ckpt, improve) ==
    IF node = "mark_complete" /\ act = "completed"
    THEN IF improve THEN "self_improver" ELSE IF ckpt THEN "checkpoint" ELSE FlowDone
    ELSE IF node = "self_improver" /\ act \in {"improved", "no_changes"}
    THEN IF improve /\ ckpt THEN "checkpoint" ELSE FlowDone
    ELSE IF node = "checkpoint" /\ act \in {"checkpointed", "error"}
    THEN IF ckpt THEN "task_selector" ELSE FlowDone
    ELSE FlowDone

\* the successor table built by create_implementation_flow; an outcome with
\* no edge ends the flow
Successor(node, act, ckpt, improve) ==
    IF node = "session_start" /\ act \in {"fresh", "resumed"} THEN "load_expertise"
    ELSE IF node = "load_expertise" /\ act \in {"loaded", "empty", "partial"} THEN "task_selector"
    ELSE IF node = "task_selector" /\ act \in {"all_complete", "all_blocked", "all_printed"}
    THEN "session_end"
    ELSE IF node = "task_selector" /\ act = "task_selected" THEN "progress_guard"
    ELSE IF node = "progress_guard" /\ act = "valid" THEN "agent_router"
    ELSE IF node = "progress_guard" /\ act = "blocked" THEN "task_selector"
    ELSE IF node = "agent_router" /\ act \in {"high", "medium", "low"} THEN "delegation"
    ELSE IF node = "delegation" /\ act = "delegated" THEN "result_processor"
    ELSE IF node = "delegation" /\ act = "error" THEN "task_selector"
    ELSE IF node = "delegation" /\ act = "print_complete" THEN "session_end"
    ELSE IF node = "delegation" /\ act = "printed" THEN "task_selector"
    ELSE IF node = "result_processor" /\ act = "failed" THEN "task_selector"
    ELSE IF node = "result_processor" /\ act = "success" THEN "mark_complete"
    ELSE OptionalEdges(node, act, ckpt, improve)

\* one step of Flow.run: the node emitted `act`, the flow moves on
Goto(node, act) ==
    /\ prev' = node
    /\ action' = act
    /\ pc' = Successor(node, act, auto_checkpoint, self_improve)

\* --------------------------------------------------------------- inputs
\* backlogs of progress.json: NumTasks tasks with unique ids, in id order
Backlogs == {b \in [1 .. NumTasks -> TaskRec] : \A i \in 1 .. NumTasks : b[i].id = i}

\* backlogs handed to the selector alone: unique ids in any order
SelectBacklogs ==
    {b \in [1 .. NumTasks -> TaskRec] : \A i, j \in 1 .. NumTasks : i # j => b[i].id # b[j].id}

\* progress["current_phase"] of the progress.json the first run reads
FlowPhases == {NoPhase, "implement", "complete"}

\* shared["task_filter"] in a run started by run-flow.py: no code sets it
FlowFilters == {NoFilter}

\* tasks.md as parse_tasks_from_markdown sees it: absent (or without task
\* lines), or one line per task, the ids in `done` ticked
NoMd == [present |-> FALSE, done |-> {}]

MdChoices == {NoMd} \cup {[present |-> TRUE, done |-> S] : S \in SUBSET TaskIds}

\* the spec folder the first run reads: progress.json holds the backlog, and
\* either there is no tasks.md, or tasks.md lists the same tasks (which then
\* replace the backlog, so that one plain backlog stands for all)
PlainBacklog == [i \in 1 .. NumTasks |-> [id |-> i, priority |-> 0, depends_on |-> {}, retry |-> FALSE]]

SpecFolders ==
    {[md |-> NoMd, backlog |-> b] : b \in Backlogs}
    \cup {[md |-> m, backlog |-> PlainBacklog] : m \in MdChoices \ {NoMd}}

\* a parsed task carries no priority, depends_on or retry key
MdTask(i) == [id |-> i, priority |-> 0, depends_on |-> {}, retry |-> FALSE]

\* pending_tasks = [t for t in parsed if t["status"] == "pending"]
RECURSIVE MdPending(_, _)
MdPending(md, i) ==
    IF i > NumTasks THEN <<>>
    ELSE (IF i \in md.done THEN <<>> ELSE <<MdTask(i)>>) \o MdPending(md, i + 1)

\* what FileStore.save writes: the whole shared store
FullSession ==
    [exists |-> TRUE, full |-> TRUE, progress |-> progress,
     delegation_history |-> delegation_history, printed_tasks |-> printed_tasks,
     success |-> success, task_filter |-> task_filter]

\* what SessionEndNode and CheckpointNode write: session, progress, learnings
NodeSession ==
    [exists |-> TRUE, full |-> FALSE, progress |-> progress,
     delegation_history |-> ZeroCount, printed_tasks |-> {},
     success |-> TRUE, task_filter |-> NoFilter]

\* ------------------------------------------------------------- FileStore
\* largest max_backups a store is configured with
MaxKeep == 2
\* seconds the wall clock runs through
MaxClock == 1
\* save() and checkpoint() calls per behaviour
MaxOps == 3

\* checkpoint(shared, label): no label, or a label
Labels == {"", "manual"}

\* a context (shared store) as FileStore sees it: session, progress and
\* learnings; the session holds JSON values only (strings, lists, dicts, as
\* the nodes write it) or a datetime as well; one further key holds a string
\* or a set; meta is _store_metadata. Two progress values tell an earlier
\* context from a later one.
Contexts ==
    {c \in [session : {"S", "S_datetime"}, progress : {"P1", "P2"}, learnings : {"L"},
            extra : {"str", "set"}, meta : {FALSE}] :
        c.progress = "P2" => (c.session = "S" /\ c.extra = "str")}

\* load(): return {}
EmptyContext ==
    [session |-> "", progress |-> "", learnings |-> "", extra |-> "", meta |-> FALSE]

\* a call that ended with an exception leaving the method
Raised == "raised"

\* _json_serializer: raise TypeError for a value without isoformat and __dict__
Serializable(ctx) == ctx.extra # "set"

\* every value of the context is a JSON value
JsonNative(ctx) == ctx.session # "S_datetime" /\ ctx.extra # "set"

\* json.dump(shared, default=_json_serializer) then json.load: a datetime
\* comes back as its isoformat string, _store_metadata was added by save
JsonDumpDropsProgress(ctx) ==
    [ctx EXCEPT !.progress = "", !.meta = TRUE]

JsonDump(ctx) ==
    [ctx EXCEPT !.session = IF @ = "S_datetime" THEN "S_isoformat" ELSE @,
                !.meta = TRUE]

\* a file: absent, holding a complete JSON document, holding the truncated
\* start of one, holding bytes that do not decode, or not openable
FileStates == {"absent", "valid", "partial", "undecodable", "unreadable"}

AbsentFile == [state |-> "absent", data |-> EmptyContext]

PartialFile == [state |-> "partial", data |-> EmptyContext]

ValidFile(data) == [state |-> "valid", data |-> data]

\* FileStore.load
FileLoad(f) ==
    IF f.state = "valid" THEN [status |-> "returned", value |-> f.data]
    ELSE IF f.state = "undecodable" THEN [status |-> Raised, value |-> EmptyContext]
    ELSE [status |-> "returned", value |-> EmptyContext]

\* no FileStore call has returned yet
NoResult == [op |-> "none", status |-> "none", value |-> EmptyContext]

\* the store is not in use
StoreIdle ==
    /\ clock = 0
    /\ seq = 0
    /\ store_cfg = [auto_backup |-> TRUE, max_backups |-> 0]
    /\ primary = AbsentFile
    /\ backup_dir = {}
    /\ mem = EmptyContext
    /\ op_pc = "idle"
    /\ result = NoResult
    /\ primary_at_call = AbsentFile
    /\ crash_at = "none"
    /\ saves = 0
    /\ clean = TRUE

\* ------------------------------------------------------ AgentSelectorNode
\* the router is not in use
\* ------------------------------------------------------ AgentSelectorNode
MaxDirectives == 2      \* override-looking texts in one description

\* AgentSelectorNode.__init__: default_agent
DefaultAgent == "implementer"

\* one entry of rules["agents"]
AgentRule(name, pats, kws, doms) ==
    [name |-> name, file_patterns |-> pats, keywords |-> kws, domains |-> doms]

\* self.default_rules["agents"], in dict order (two of the five built-ins,
\* with some of their patterns and keywords)
BuiltinAgents ==
    <<AgentRule("frontend-specialist", {"\\.tsx$", "components/"}, {"react", "component", "style"},
                {"frontend"}),
      AgentRule("api-specialist", {"api/"}, {"api", "endpoint"}, {"api"})>>

\* task["file_patterns"]: the files a task names
TaskFiles == {"src/components/App.tsx", "src/Nav.tsx", "src/api/users.ts"}

\* re.search(pattern, file_path, re.IGNORECASE)
PatternMatchesFile(pat, f) ==
    \/ pat = "\\.tsx$" /\ f \in {"src/components/App.tsx", "src/Nav.tsx"}
    \/ pat = "components/" /\ f = "src/components/App.tsx"
    \/ pat = "api/" /\ f = "src/api/users.ts"

\* words a description may hold beside its bracketed texts
DescWords == {"react", "component", "style", "components/"}

\* re.search(pattern, description, re.IGNORECASE)
PatternInDescription(pat, words) == pat = "components/" /\ "components/" \in words

\* keyword.lower() in description: a substring test
KeywordInDescription(kw, words) ==
    \/ kw \in words
    \/ kw = "component" /\ "components/" \in words

\* names written after "[use:" in a description; the last one has
\* characters outside [a-z-]
DirectiveNames == {"api-specialist", "Ghost-Agent", "agent_2"}

\* ([a-z-]+) with re.IGNORECASE
WellFormedName(n) == n # "agent_2"

\* task descriptions: the bracketed texts in order, and the other words
Descriptions ==
    [directives : UNION {[1 .. n -> DirectiveNames] : n \in 0 .. MaxDirectives},
     words : SUBSET DescWords]

NoOverride == ""

\* re.search(r'\[use:([a-z-]+)\]', task_description, re.IGNORECASE): the name
\* of the first text that matches
RECURSIVE FirstWellFormed(_, _)
FirstWellFormed(ds, i) ==
    IF i > Len(ds) THEN NoOverride
    ELSE IF WellFormedName(ds[i]) THEN ds[i]
    ELSE FirstWellFormed(ds, i + 1)

OverrideNever(desc) == NoOverride

Override(desc) == FirstWellFormed(desc.directives, 1)

\* routing.yaml: absent, or a mapping with "agents" and/or "default_agent"
NoRoutingFile == [exists |-> FALSE, agents |-> <<>>, default_agent |-> ""]

RoutingFiles ==
    {NoRoutingFile,
     [exists |-> TRUE,
      agents |-> <<AgentRule("custom-agent", {"api/"}, {"react"}, {"api"})>>,
      default_agent |-> ""],
     [exists |-> TRUE, agents |-> <<>>, default_agent |-> "reviewer"],
     [exists |-> TRUE,
      agents |-> <<AgentRule("api-specialist", {}, {"style"}, {})>>,
      default_agent |-> "reviewer"]}

\* shared["available_agents"]: None or empty (no filter), or a list
AllowLists == {{}, {"frontend-specialist"}, {"custom-agent"}, {"implementer"}}

\* shared["expertise"]["domains"].keys()
ExpertiseDomains == SUBSET {"frontend", "api"}

RouteInputs ==
    [description : Descriptions, files : SUBSET TaskFiles, available : AllowLists,
     expertise_domains : ExpertiseDomains, routing_file : RoutingFiles]

\* dict.update: an existing key keeps its place and takes the new value, a
\* new key goes to the end
RECURSIVE DictUpdate(_, _, _)
DictUpdate(agents, custom, i) ==
    IF i > Len(custom) THEN agents
    ELSE LET c == custom[i]
             at == {k \in DOMAIN agents : agents[k].name = c.name}
         IN  DictUpdate(IF at = {} THEN Append(agents, c)
                        ELSE [k \in DOMAIN agents |-> IF k \in at THEN c ELSE agents[k]],
                        custom, i + 1)

\* rules = self.default_rules.copy(); rules["agents"].update(custom["agents"]):
\* the copy is shallow, the update is made on the agents dict of the node
MergedAgents(agents, file) ==
    IF file.exists THEN DictUpdate(agents, file.agents, 1) ELSE agents

\* rules["default_agent"] after the merge
MergedDefault(file) ==
    IF file.exists /\ file.default_agent # "" THEN file.default_agent ELSE DefaultAgent

\* the score of one agent: 10 per (pattern, file) match, 5 per pattern found
\* in the description, 3 per keyword, 2 per expertise domain
Score(rule, in) ==
    10 * Cardinality({pf \in rule.file_patterns \X in.files :
                         PatternMatchesFile(pf[1], pf[2])})
    + 5 * Cardinality({pat \in rule.file_patterns :
                          PatternInDescription(pat, in.description.words)})
    + 3 * Cardinality({kw \in rule.keywords :
                          KeywordInDescription(kw, in.description.words)})
    + 2 * Cardinality(rule.domains \cap in.expertise_domains)

\* the agents that are scored: all, or those of the allow-list
Scored(agents, in) ==
    {k \in DOMAIN agents : in.available = {} \/ agents[k].name \in in.available}

\* max(scores.keys(), key=score): the first agent, in dict order, whose score
\* is maximal
BestLastOfTies(agents, in) ==
    CHOOSE k \in Scored(agents, in) :
        /\ \A j \in Scored(agents, in) : Score(agents[j], in) <= Score(agents[k], in)
        /\ \A j \in Scored(agents, in) :
              Score(agents[j], in) = Score(agents[k], in) => j <= k

Best(agents, in) ==
    CHOOSE k \in Scored(agents, in) :
        /\ \A j \in Scored(agents, in) : Score(agents[j], in) <= Score(agents[k], in)
        /\ \A j \in Scored(agents, in) :
              Score(agents[j], in) = Score(agents[k], in) => k <= j

\* result["scores"]: the score of every agent that was scored
ScoresOf(agents, in) ==
    {[name |-> agents[k].name, score |-> Score(agents[k], in)] : k \in Scored(agents, in)}

\* best_score >= 10: high; >= 5: medium; else low
TierStrict(score) ==
    IF score > 10 THEN "high" ELSE IF score > 5 THEN "medium" ELSE "low"

Tier(score) ==
    IF score >= 10 THEN "high" ELSE IF score >= 5 THEN "medium" ELSE "low"

\* the result of exec: agent, confidence and scores
Decision(agent, confidence, scores) ==
    [agent |-> agent, confidence |-> confidence, scores |-> scores]

NoRoute == Decision("", "", {})

\* AgentSelectorNode.exec
RouteExec(agents, in) ==
    IF Override(in.description) # NoOverride
    THEN Decision(Override(in.description), "high", {})
    ELSE LET merged == MergedAgents(agents, in.routing_file)
             scores == ScoresOf(merged, in)
         IN  IF Scored(merged, in) = {}
             THEN Decision(DefaultAgent, "low", scores)
             ELSE LET best == merged[Best(merged, in)]
                      best_score == Score(best, in)
                  IN  IF best_score > 0 THEN Decision(best.name, Tier(best_score), scores)
                      ELSE Decision(MergedDefault(in.routing_file), "low", scores)

\* the agents dict of the node after exec: the override returns before the
\* rules are loaded
AgentsAfter(agents, in) ==
    IF Override(in.description) # NoOverride THEN agents
    ELSE MergedAgents(agents, in.routing_file)

NoRouteInput ==
    [description |-> [directives |-> <<>>, words |-> {}], files |-> {}, available |-> {},
     expertise_domains |-> {}, routing_file |-> NoRoutingFile]

\* a node that has not routed anything yet
RouterIdle ==
    /\ router_rules = BuiltinAgents
    /\ route_in = NoRouteInput
    /\ route_out = NoRoute

\* no phase handed over in shared, no specification flow run, no session
\* started
AuxIdle ==
    /\ shared_phase = "absent"
    /\ spec_tasks = <<>>
    /\ spec_errors = {}
    /\ spec_files = {}
    /\ session_resumed = "unset"

\* ----------------------------------------------------------------- Init
\* run_implementation up to flow.run(shared): the shared store as loaded
Init ==
    /\ mode \in Modes
    /\ auto_checkpoint \in BOOLEAN
    /\ self_improve \in BOOLEAN
    /\ pc = "session_start"
    /\ prev = "driver"
    /\ action = "start"
    /\ run = 1
    /\ progress = EmptyProgress
    /\ current_task = NoTask
    /\ printed_tasks = {}
    /\ task_filter \in FlowFilters
    /\ success \in BOOLEAN
    /\ delegation = NoDelegation
    /\ delegation_history = ZeroCount
    /\ phase_valid = [valid |-> TRUE, missing |-> {}]
    /\ session_file = IF success /\ task_filter = NoFilter THEN NoSession ELSE FullSession
    /\ \E folder \in SpecFolders, ph \in FlowPhases :
          /\ tasks_md = folder.md
          /\ progress_file = [exists |-> TRUE,
                              content |-> [EmptyProgress EXCEPT
                                              !.tasks = folder.backlog,
                                              !.current_phase = ph]]
    /\ interrupted = NoInterrupt
    /\ StoreIdle
    /\ RouterIdle
    /\ AuxIdle

\* -------------------------------------------------------------- the nodes
\* <sessions_path>/<session_id>.json as open() and json.load find it: the
\* bytes on disk where the directory is tracked file by file, otherwise the
\* context the driver saved last
SessionFileState ==
    IF primary.state # "absent" THEN primary.state
    ELSE IF session_file.exists THEN "valid" ELSE "absent"

\* SessionStartNode.exec, step 3: json.load of the session file inside
\* `except (json.JSONDecodeError, IOError)`; bytes that are not UTF-8 raise
\* UnicodeDecodeError, which the clause does not name
SessionRead(state) ==
    IF state = "undecodable" THEN Raised
    ELSE IF state = "valid" THEN "true"
    ELSE "false"

\* SessionStartNode: exec reads the session file, progress comes from progress.json, tasks.md is merged
SessionStart ==
    /\ pc = "session_start"
    /\ LET resumed == SessionRead(SessionFileState)
       IN IF resumed = Raised
          THEN /\ pc' = "crashed"
               /\ prev' = "session_start"
               /\ action' = "UnicodeDecodeError"
               /\ UNCHANGED <<progress, session_resumed>>
          ELSE /\ LET md == tasks_md
                      fromFile == IF progress_file.exists THEN progress_file.content
                                  ELSE EmptyProgress
                      done == CompletedSet(fromFile) \cup md.done
                      merged == IF md.present /\ NumTasks > 0
                                THEN [fromFile EXCEPT
                                         !.tasks = MdPending(md, 1),
                                         !.completed = [i \in TaskIds |->
                                                          IF i \in done THEN 1 ELSE 0]]
                                ELSE fromFile
                  IN progress' = merged
               /\ session_resumed' = resumed
               /\ Goto("session_start", IF resumed = "true" THEN "resumed" ELSE "fresh")
    /\ UNCHANGED <<storeVars, routerVars, shared_phase, spec_tasks, spec_errors, spec_files,
                   mode, auto_checkpoint, self_improve, run, current_task,
                   printed_tasks, task_filter, success, delegation,
                   delegation_history, phase_valid, session_file, progress_file,
                   interrupted, tasks_md>>

\* LoadExpertiseNode: the outcome depends on the expertise directory only
LoadExpertise ==
    /\ pc = "load_expertise"
    /\ \E act \in {"loaded", "empty", "partial"} : Goto("load_expertise", act)
    /\ UNCHANGED <<storeVars, routerVars, auxVars, mode, auto_checkpoint, self_improve, run, progress,
                   current_task, printed_tasks, task_filter, success, delegation,
                   delegation_history, phase_valid, session_file, progress_file,
                   interrupted, tasks_md>>

\* TaskSelectorNode: prep, exec and post
TaskSelector ==
    /\ pc = "task_selector"
    /\ LET res == SelectExec(progress.tasks, CompletedSet(progress),
                             FailedIds(progress), printed_tasks, mode, task_filter)
       IN /\ current_task' = res.selected_task
          /\ progress' = IF res.selected_task # NoTask
                         THEN [progress EXCEPT !.current_task = res.selected_task.id]
                         ELSE progress
          /\ Goto("task_selector", SelectOutcome(res))
    /\ UNCHANGED <<storeVars, routerVars, auxVars, mode, auto_checkpoint, self_improve, run, printed_tasks,
                   task_filter, success, delegation, delegation_history,
                   phase_valid, session_file, progress_file, interrupted, tasks_md>>

\* ProgressGuardNode.prep: shared.get("current_phase", progress["current_phase"])
Entered(sp, p) == IF sp # "absent" THEN sp ELSE p.current_phase

\* ProgressGuardNode: entering "complete" compares the completed list with
\* an int (list < int), which raises TypeError out of flow.run
ProgressGuard ==
    /\ pc = "progress_guard"
    /\ LET entered == Entered(shared_phase, progress)
           missing == MissingPhases(RequiredPhases, entered, progress.completed_phases)
       IN IF entered = "complete"
          THEN /\ pc' = "crashed"
               /\ prev' = "progress_guard"
               /\ action' = "TypeError"
               /\ UNCHANGED <<phase_valid, progress>>
          ELSE /\ phase_valid' = [valid |-> missing = {}, missing |-> missing]
               /\ progress' = IF missing = {}
                              THEN [progress EXCEPT !.current_phase = entered]
                              ELSE progress
               /\ Goto("progress_guard", GuardOutcome(missing))
    /\ UNCHANGED <<storeVars, routerVars, auxVars, mode, auto_checkpoint, self_improve, run,
                   current_task, printed_tasks, task_filter, success, delegation,
                   delegation_history, session_file, progress_file, interrupted, tasks_md>>

\* AgentSelectorNode: every confidence tier leads to the delegation node
AgentRouter ==
    /\ pc = "agent_router"
    /\ \E conf \in {"high", "medium", "low"} : Goto("agent_router", conf)
    /\ UNCHANGED <<storeVars, routerVars, auxVars, mode, auto_checkpoint, self_improve, run, progress,
                   current_task, printed_tasks, task_filter, success, delegation,
                   delegation_history, phase_valid, session_file, progress_file,
                   interrupted, tasks_md>>

\* ------------------------------------------------ ClaudeCodeDelegationNode
\* what can happen while exec runs, per delegation mode: nothing is executed
\* in print mode, and "batch" has no branch of its own; file mode writes
\* pending_delegations.json; cli mode runs the claude executable
ExecOutcomes(m) ==
    IF m = "file" THEN {"written", "io_error"}
    ELSE IF m = "cli" THEN {"exit0", "nonzero_stderr", "nonzero_silent",
                            "not_found", "timeout"}
    ELSE {"nothing"}

\* Python None
None == "None"

\* result["error"] after exec: cmd_result.stderr if returncode != 0 else None
ExecErrorStderrNeverEmpty(m, out) ==
    IF out = "io_error" THEN "io error"
    ELSE IF out \in {"nonzero_stderr", "nonzero_silent"} THEN "stderr text"
    ELSE IF out = "not_found" THEN "claude CLI not available"
    ELSE IF out = "timeout" THEN "timeout"
    ELSE None

ExecError(m, out) ==
    IF out = "io_error" THEN "io error"
    ELSE IF out = "nonzero_stderr" THEN "stderr text"
    ELSE IF out = "nonzero_silent" THEN ""
    ELSE IF out = "not_found" THEN "claude CLI not available"
    ELSE IF out = "timeout" THEN "timeout"
    ELSE None

\* result["executed"]
ExecExecuted(m, out) == out \in {"written", "exit0"}

\* truth value of a Python str-or-None
Truthy(v) == v # None /\ v # ""

\* ClaudeCodeDelegationNode.post: the outcome label
DelegationOutcome(m, err) == IF Truthy(err) THEN "error" ELSE "delegated"

Delegation ==
    /\ pc = "delegation"
    /\ \E out \in ExecOutcomes(mode) :
          /\ delegation' = [task_id |-> current_task.id,
                            executed |-> ExecExecuted(mode, out)]
          /\ delegation_history' =
                 [delegation_history EXCEPT ![current_task.id] = Bump(@)]
          /\ Goto("delegation", DelegationOutcome(mode, ExecError(mode, out)))
    /\ UNCHANGED <<storeVars, routerVars, auxVars, mode, auto_checkpoint, self_improve, run, progress,
                   current_task, printed_tasks, task_filter, success,
                   phase_valid, session_file, progress_file, interrupted, tasks_md>>

\* ------------------------------------------------------ SubagentResultNode
\* post: the task id goes to progress["completed"] (unless present) or an
\* entry is appended to progress["failed"]
ResultPost(p, id, ok) ==
    IF ok
    THEN [p EXCEPT !.completed[id] = IF @ = 0 THEN 1 ELSE @]
    ELSE [p EXCEPT !.failed[id] = Bump(@)]

ResultProcessor ==
    /\ pc = "result_processor"
    /\ progress' = ResultPost(progress, delegation.task_id, success)
    /\ Goto("result_processor", IF success THEN "success" ELSE "failed")
    /\ UNCHANGED <<storeVars, routerVars, auxVars, mode, auto_checkpoint, self_improve, run, current_task,
                   printed_tasks, task_filter, success, delegation,
                   delegation_history, phase_valid, session_file, progress_file,
                   interrupted, tasks_md>>

\* ---------------------------------------------------- MarkTaskCompleteNode
\* exec: append the id unless present, append a completion_log entry, clear
\* current_task
MarkExecAppendsAlways(p, id) ==
    [p EXCEPT !.completed[id] = Bump(@),
              !.completion_log[id] = Bump(@),
              !.current_task = NoId]

MarkExec(p, id) ==
    [p EXCEPT !.completed[id] = IF @ = 0 THEN 1 ELSE @,
              !.completion_log[id] = Bump(@),
              !.current_task = NoId]

MarkComplete ==
    /\ pc = "mark_complete"
    /\ progress' = MarkExec(progress, current_task.id)
    /\ current_task' = NoTask
    /\ Goto("mark_complete", "completed")
    /\ UNCHANGED <<storeVars, routerVars, auxVars, mode, auto_checkpoint, self_improve, run, printed_tasks,
                   task_filter, success, delegation, delegation_history,
                   phase_valid, session_file, progress_file, interrupted, tasks_md>>

\* SelfImproveNode: the outcome depends on task_result and learnings only
SelfImprover ==
    /\ pc = "self_improver"
    /\ \E act \in {"improved", "no_changes"} : Goto("self_improver", act)
    /\ UNCHANGED <<storeVars, routerVars, auxVars, mode, auto_checkpoint, self_improve, run, progress,
                   current_task, printed_tasks, task_filter, success, delegation,
                   delegation_history, phase_valid, session_file, progress_file,
                   interrupted, tasks_md>>

\* ---------------------------------------------------------- CheckpointNode
\* exec writes the session file, which may fail with IOError and decides the
\* outcome, and progress.json
Checkpoint ==
    /\ pc = "checkpoint"
    /\ \E wrote \in BOOLEAN :
          /\ session_file' = IF wrote THEN NodeSession ELSE session_file
          /\ progress_file' = [exists |-> TRUE, content |-> progress]
          /\ Goto("checkpoint", IF wrote THEN "checkpointed" ELSE "error")
    /\ UNCHANGED <<storeVars, routerVars, auxVars, mode, auto_checkpoint, self_improve, run, progress,
                   current_task, printed_tasks, task_filter, success, delegation,
                   delegation_history, phase_valid, interrupted, tasks_md>>

\* ---------------------------------------------------------- SessionEndNode
SessionEnd ==
    /\ pc = "session_end"
    /\ \E wrote \in BOOLEAN :
          /\ session_file' = IF wrote THEN NodeSession ELSE session_file
          /\ progress_file' = [exists |-> TRUE, content |-> progress]
          /\ Goto("session_end", IF wrote THEN "saved" ELSE "error")
    /\ UNCHANGED <<storeVars, routerVars, auxVars, mode, auto_checkpoint, self_improve, run, progress,
                   current_task, printed_tasks, task_filter, success, delegation,
                   delegation_history, phase_valid, interrupted, tasks_md>>

\* ------------------------------------------------------ run_implementation
\* flow.run returned: store.save(shared), then the summary
DriverSave ==
    /\ pc = FlowDone
    /\ session_file' = FullSession
    /\ pc' = "exited"
    /\ interrupted' = NoInterrupt
    /\ UNCHANGED <<storeVars, routerVars, auxVars, mode, auto_checkpoint, self_improve, prev, action, run,
                   progress, current_task, printed_tasks, task_filter, success,
                   delegation, delegation_history, phase_valid, progress_file, tasks_md>>

\* except KeyboardInterrupt: store.save(shared), then exit
Interrupt ==
    /\ pc \in FlowNodes
    /\ session_file' = FullSession
    /\ interrupted' = [happened |-> TRUE, progress |-> progress]
    /\ pc' = "exited"
    /\ prev' = "driver"
    /\ action' = "KeyboardInterrupt"
    /\ UNCHANGED <<storeVars, routerVars, auxVars, mode, auto_checkpoint, self_improve, run, progress,
                   current_task, printed_tasks, task_filter, success, delegation,
                   delegation_history, phase_valid, progress_file, tasks_md>>

\* the next invocation with --session <same id>: shared = store.load()
StartRun ==
    /\ pc = "exited"
    /\ run < MaxRuns
    /\ run' = run + 1
    /\ pc' = "session_start"
    /\ prev' = "driver"
    /\ action' = "start"
    /\ progress' = IF session_file.exists THEN session_file.progress ELSE EmptyProgress
    /\ delegation_history' = session_file.delegation_history
    /\ printed_tasks' = session_file.printed_tasks
    /\ success' = session_file.success
    /\ task_filter' = session_file.task_filter
    /\ current_task' = NoTask
    /\ delegation' = NoDelegation
    /\ phase_valid' = [valid |-> TRUE, missing |-> {}]
    /\ UNCHANGED <<storeVars, routerVars, auxVars, mode, auto_checkpoint, self_improve, session_file,
                   progress_file, interrupted, tasks_md>>

\* the steps of Flow.run
FlowStep ==
    \/ SessionStart
    \/ LoadExpertise
    \/ TaskSelector
    \/ ProgressGuard
    \/ AgentRouter
    \/ Delegation
    \/ ResultProcessor
    \/ MarkComplete
    \/ SelfImprover
    \/ Checkpoint
    \/ SessionEnd

Next ==
    \/ FlowStep
    \/ DriverSave
    \/ Interrupt
    \/ StartRun

Spec == Init /\ [][Next]_vars

\* a single invocation, never interrupted: Flow.run is a synchronous loop
\* that always takes its next step, and the driver then saves and exits
NextRun ==
    \/ FlowStep
    \/ DriverSave

FairSpec == Init /\ [][NextRun]_vars /\ WF_vars(NextRun)

\* ------------------------------------------- the selector over its inputs
\* TaskSelectorNode reads progress (tasks, completed, failed), printed_tasks,
\* delegation_mode and task_filter from the shared store.  A task is recorded
\* in failed or printed_tasks only after it was selected, that is after all
\* its dependencies were completed.
InitSelect ==
    /\ mode \in Modes
    /\ auto_checkpoint = TRUE
    /\ self_improve = TRUE
    /\ pc = "task_selector"
    /\ prev = "load_expertise"
    /\ action = "loaded"
    /\ run = 1
    /\ \E b \in SelectBacklogs, c \in [TaskIds -> {0, 1}], f \in [TaskIds -> {0, 1}] :
          progress = [EmptyProgress EXCEPT !.tasks = b, !.completed = c, !.failed = f]
    /\ current_task = NoTask
    /\ printed_tasks \in SUBSET TaskIds
    /\ \A i \in DOMAIN progress.tasks :
          progress.tasks[i].id \in FailedIds(progress) \cup printed_tasks
              => progress.tasks[i].depends_on \subseteq CompletedSet(progress)
    /\ task_filter \in Filters
    /\ success = TRUE
    /\ delegation = NoDelegation
    /\ delegation_history = ZeroCount
    /\ phase_valid = [valid |-> TRUE, missing |-> {}]
    /\ session_file = NoSession
    /\ progress_file = NoFile
    /\ tasks_md = NoMd
    /\ interrupted = NoInterrupt
    /\ StoreIdle
    /\ RouterIdle
    /\ AuxIdle

NextSelect == TaskSelector

SpecSelect == InitSelect /\ [][NextSelect]_vars

\* ------------------------------------------------------ FileStore: files
\* a file of the backups directory: a rotated backup <id>_<stamp>.json or a
\* checkpoint <id>_checkpoint[_<label>]_<stamp>.json, with its mtime
DirFile(kind, label, stamp, mtime, file) ==
    [kind |-> kind, label |-> label, stamp |-> stamp, mtime |-> mtime, file |-> file]

SameName(f, g) == f.kind = g.kind /\ f.label = g.label /\ f.stamp = g.stamp

\* open(path, 'w') and write: a file of the same name is replaced
WriteFile(dir, new) == {f \in dir : ~SameName(f, new)} \cup {new}

\* the session id of the store, and ids of other stores on the same base
\* path: one is the store's id followed by "_2", one is unrelated
SessionId == "s"

OtherIds == {"s_2", "t"}

\* the characters of a session id
IdChars(id) ==
    IF id = "s" THEN <<"s">>
    ELSE IF id = "s_2" THEN <<"s", "_", "2">>
    ELSE <<"t">>

\* the session a file of backups/ was written for; a file of kind "foreign"
\* is a backup or checkpoint of the session named in its label
OwnerOf(f) == IF f.kind = "foreign" THEN f.label ELSE SessionId

\* f"{session_id}_{timestamp}.json" and f"{session_id}_checkpoint..._{timestamp}.json":
\* the id, an underscore, the rest
FileName(f) == IdChars(OwnerOf(f)) \o <<"_", "rest.json">>

\* str.startswith
StartsWith(name, prefix) ==
    Len(name) >= Len(prefix) /\ SubSeq(name, 1, Len(prefix)) = prefix

\* _cleanup_backups: f.startswith(session_id + "_") and f.endswith(".json")
MatchesPrefix(f) == StartsWith(FileName(f), IdChars(SessionId) \o <<"_">>)

\* _cleanup_backups: the files it lists
Candidates(dir) == {f \in dir : MatchesPrefix(f)}

\* backups.sort() by mtime, then pop(0) while len(backups) > max_backups:
\* the files removed are those with at least k newer candidates
Victims(dir, k) ==
    {f \in Candidates(dir) : Cardinality({g \in Candidates(dir) : g.mtime > f.mtime}) >= k}

\* the j oldest victims (the loop stops at the first os.remove that fails)
OldestVictims(dir, k, j) ==
    {f \in Victims(dir, k) : Cardinality({g \in Victims(dir, k) : g.mtime < f.mtime}) < j}

\* _create_backup opens the primary file for reading only
PrimaryMovedToBackup(f) == AbsentFile

PrimaryAfterBackup(f) == f

\* what can happen while _create_backup copies the primary file
BackupOutcomes(f) ==
    IF f.state = "unreadable" THEN {"io_error"}
    ELSE IF f.state = "undecodable" THEN {"decode_error", "io_error"}
    ELSE {"copied", "io_error"}

\* ---------------------------------------------------- FileStore: methods
\* save(): os.makedirs, then the backup if the primary file exists
SaveCall ==
    /\ op_pc = "idle"
    /\ seq < MaxOps
    /\ seq' = seq + 1
    /\ primary_at_call' = primary
    /\ crash_at' = "none"
    /\ \E ctx \in Contexts, dir_ok \in BOOLEAN :
          /\ mem' = ctx
          /\ IF dir_ok
             THEN /\ op_pc' = IF store_cfg.auto_backup /\ primary.state # "absent"
                              THEN "backup" ELSE "write"
                  /\ result' = [op |-> "save", status |-> "running", value |-> EmptyContext]
                  /\ clean' = clean
             ELSE /\ op_pc' = "idle"
                  /\ result' = [op |-> "save", status |-> "false", value |-> EmptyContext]
                  /\ clean' = FALSE
    /\ UNCHANGED <<flowVars, routerVars, auxVars, clock, store_cfg, primary, backup_dir, saves>>

\* _create_backup up to the call of _cleanup_backups
BackupStep ==
    /\ op_pc = "backup"
    /\ primary' = PrimaryAfterBackup(primary)
    /\ \E out \in BackupOutcomes(primary) :
          \/ /\ out = "copied"
             /\ backup_dir' = WriteFile(backup_dir, DirFile("backup", "", clock, seq, primary))
             /\ op_pc' = "cleanup"
             /\ UNCHANGED <<result, clean>>
          \/ /\ out = "io_error"
             /\ op_pc' = "write"
             /\ clean' = FALSE
             /\ UNCHANGED <<backup_dir, result>>
          \/ /\ out = "decode_error"
             /\ backup_dir' = WriteFile(backup_dir, DirFile("backup", "", clock, seq, PartialFile))
             /\ op_pc' = "idle"
             /\ result' = [op |-> "save", status |-> Raised, value |-> EmptyContext]
             /\ clean' = FALSE
    /\ UNCHANGED <<flowVars, routerVars, auxVars, clock, seq, store_cfg, mem,
                   primary_at_call, crash_at, saves>>

\* _cleanup_backups: all victims removed, or an IOError after the j oldest
CleanupStep ==
    /\ op_pc = "cleanup"
    /\ \E j \in 0 .. Cardinality(Victims(backup_dir, store_cfg.max_backups)) :
          /\ backup_dir' = backup_dir \ OldestVictims(backup_dir, store_cfg.max_backups, j)
          /\ clean' = (clean /\ j = Cardinality(Victims(backup_dir, store_cfg.max_backups)))
    /\ op_pc' = "write"
    /\ UNCHANGED <<flowVars, routerVars, auxVars, clock, seq, store_cfg, primary, mem, result,
                   primary_at_call, crash_at, saves>>

\* shared["_store_metadata"] = ..., then open(self.file_path, 'w')
WriteOpen ==
    /\ op_pc = "write"
    /\ mem' = [mem EXCEPT !.meta = TRUE]
    /\ \E opened \in BOOLEAN :
          IF opened
          THEN /\ primary' = PartialFile
               /\ op_pc' = "dump"
               /\ UNCHANGED <<result, clean>>
          ELSE /\ op_pc' = "idle"
               /\ result' = [op |-> "save", status |-> "false", value |-> EmptyContext]
               /\ clean' = FALSE
               /\ UNCHANGED primary
    /\ UNCHANGED <<flowVars, routerVars, auxVars, clock, seq, store_cfg, backup_dir,
                   primary_at_call, crash_at, saves>>

\* json.dump(shared, f, default=self._json_serializer) and return True
WriteDump ==
    /\ op_pc = "dump"
    /\ op_pc' = "idle"
    /\ IF Serializable(mem)
       THEN \E written \in BOOLEAN :
               IF written
               THEN /\ primary' = ValidFile(JsonDump(mem))
                    /\ result' = [op |-> "save", status |-> "true", value |-> EmptyContext]
                    /\ saves' = saves + 1
                    /\ UNCHANGED clean
               ELSE /\ result' = [op |-> "save", status |-> "false", value |-> EmptyContext]
                    /\ clean' = FALSE
                    /\ UNCHANGED <<primary, saves>>
       ELSE /\ result' = [op |-> "save", status |-> Raised, value |-> EmptyContext]
            /\ clean' = FALSE
            /\ UNCHANGED <<primary, saves>>
    /\ UNCHANGED <<flowVars, routerVars, auxVars, clock, seq, store_cfg, backup_dir, mem,
                   primary_at_call, crash_at>>

\* the process is killed inside save(); files keep what was done so far
Kill ==
    /\ op_pc # "idle"
    /\ op_pc' = "idle"
    /\ crash_at' = op_pc
    /\ result' = [op |-> "save", status |-> "killed", value |-> EmptyContext]
    /\ clean' = FALSE
    /\ IF op_pc = "backup"
       THEN \E started \in BOOLEAN :
               backup_dir' = IF started /\ primary.state \in {"valid", "partial"}
                             THEN WriteFile(backup_dir,
                                            DirFile("backup", "", clock, seq, PartialFile))
                             ELSE backup_dir
       ELSE IF op_pc = "cleanup"
       THEN \E j \in 0 .. Cardinality(Victims(backup_dir, store_cfg.max_backups)) :
               backup_dir' = backup_dir \ OldestVictims(backup_dir, store_cfg.max_backups, j)
       ELSE UNCHANGED backup_dir
    /\ UNCHANGED <<flowVars, routerVars, auxVars, clock, seq, store_cfg, primary, mem,
                   primary_at_call, saves>>

\* load()
LoadCall ==
    /\ op_pc = "idle"
    /\ result' = [op |-> "load", status |-> FileLoad(primary).status,
                  value |-> FileLoad(primary).value]
    /\ UNCHANGED <<flowVars, routerVars, auxVars, clock, seq, store_cfg, primary, backup_dir,
                   mem, op_pc, primary_at_call, crash_at, saves, clean>>

\* checkpoint(shared, label)
CheckpointCall ==
    /\ op_pc = "idle"
    /\ seq < MaxOps
    /\ seq' = seq + 1
    /\ clean' = FALSE
    /\ \E ctx \in Contexts, label \in Labels, opened \in BOOLEAN :
          IF ~opened
          THEN /\ result' = [op |-> "checkpoint", status |-> "false", value |-> EmptyContext]
               /\ UNCHANGED backup_dir
          ELSE IF Serializable(ctx)
          THEN /\ backup_dir' =
                     WriteFile(backup_dir,
                               DirFile("checkpoint", label, clock, seq + 1,
                                       ValidFile([JsonDump(ctx) EXCEPT !.meta = FALSE])))
               /\ result' = [op |-> "checkpoint", status |-> "true", value |-> EmptyContext]
          ELSE /\ backup_dir' =
                     WriteFile(backup_dir,
                               DirFile("checkpoint", label, clock, seq + 1, PartialFile))
               /\ result' = [op |-> "checkpoint", status |-> Raised, value |-> EmptyContext]
    /\ UNCHANGED <<flowVars, routerVars, auxVars, clock, store_cfg, primary, mem, op_pc,
                   primary_at_call, crash_at, saves>>

\* a second passes between two calls
Tick ==
    /\ op_pc = "idle"
    /\ clock < MaxClock
    /\ clock' = clock + 1
    /\ UNCHANGED <<flowVars, routerVars, auxVars, seq, store_cfg, primary, backup_dir, mem,
                   op_pc, result, primary_at_call, crash_at, saves, clean>>

\* no flow is running
FlowIdle ==
    /\ mode = "batch"
    /\ auto_checkpoint = TRUE
    /\ self_improve = TRUE
    /\ pc = "exited"
    /\ prev = "driver"
    /\ action = "start"
    /\ run = MaxRuns
    /\ progress = EmptyProgress
    /\ current_task = NoTask
    /\ printed_tasks = {}
    /\ task_filter = NoFilter
    /\ success = TRUE
    /\ delegation = NoDelegation
    /\ delegation_history = ZeroCount
    /\ phase_valid = [valid |-> TRUE, missing |-> {}]
    /\ session_file = NoSession
    /\ progress_file = NoFile
    /\ tasks_md = NoMd
    /\ interrupted = NoInterrupt

\* a FileStore on a sessions directory that holds at most a primary file
InitStore ==
    /\ FlowIdle
    /\ RouterIdle
    /\ AuxIdle
    /\ clock = 0
    /\ seq = 0
    /\ store_cfg \in [auto_backup : BOOLEAN, max_backups : 0 .. MaxKeep]
    /\ primary \in {AbsentFile, PartialFile}
                   \cup {[state |-> st, data |-> EmptyContext] : st \in {"undecodable", "unreadable"}}
    /\ backup_dir = {}
    /\ mem = EmptyContext
    /\ op_pc = "idle"
    /\ result = NoResult
    /\ primary_at_call = primary
    /\ crash_at = "none"
    /\ saves = 0
    /\ clean = (primary = AbsentFile /\ store_cfg.auto_backup)

NextStore ==
    \/ SaveCall
    \/ BackupStep
    \/ CleanupStep
    \/ WriteOpen
    \/ WriteDump
    \/ Kill
    \/ LoadCall
    \/ CheckpointCall
    \/ Tick

SpecStore == InitStore /\ [][NextStore]_vars

\* ------------------------- FileStore.save on a base path shared by stores
\* files other stores left in backups/, older than anything this store writes
ForeignFiles == {DirFile("foreign", o, 0, 0, ValidFile(EmptyContext)) : o \in OtherIds}

InitShared ==
    /\ FlowIdle
    /\ RouterIdle
    /\ AuxIdle
    /\ clock = 0
    /\ seq = 0
    /\ store_cfg \in [auto_backup : BOOLEAN, max_backups : 0 .. MaxKeep]
    /\ primary \in {AbsentFile, ValidFile(EmptyContext)}
    /\ backup_dir \in SUBSET ForeignFiles
    /\ mem = EmptyContext
    /\ op_pc = "idle"
    /\ result = NoResult
    /\ primary_at_call = primary
    /\ crash_at = "none"
    /\ saves = 0
    /\ clean = FALSE

NextShared ==
    \/ SaveCall
    \/ BackupStep
    \/ CleanupStep
    \/ WriteOpen
    \/ WriteDump
    \/ Tick

SpecShared == InitShared /\ [][NextShared]_vars

\* ------------------------------------- MarkTaskCompleteNode run repeatedly
\* the caller puts a task in shared["current_task"] and runs the node
SetCurrentTask ==
    /\ pc # "mark_complete"
    /\ \E t \in TaskRec :
          /\ progress.completion_log[t.id] < MaxEntries
          /\ current_task' = t
    /\ pc' = "mark_complete"
    /\ prev' = "driver"
    /\ action' = "start"
    /\ UNCHANGED <<storeVars, routerVars, auxVars, mode, auto_checkpoint, self_improve, run,
                   progress, printed_tasks, task_filter, success, delegation,
                   delegation_history, phase_valid, session_file, progress_file,
                   interrupted, tasks_md>>

\* a progress with any completed list and an empty completion log, and a
\* current task to mark
InitMark ==
    /\ mode = "batch"
    /\ auto_checkpoint \in BOOLEAN
    /\ self_improve \in BOOLEAN
    /\ pc = "mark_complete"
    /\ prev = "driver"
    /\ action = "start"
    /\ run = 1
    /\ \E c \in [TaskIds -> 0 .. 1] : progress = [EmptyProgress EXCEPT !.completed = c]
    /\ current_task \in TaskRec
    /\ printed_tasks = {}
    /\ task_filter = NoFilter
    /\ success = TRUE
    /\ delegation = NoDelegation
    /\ delegation_history = ZeroCount
    /\ phase_valid = [valid |-> TRUE, missing |-> {}]
    /\ session_file = NoSession
    /\ progress_file = NoFile
    /\ tasks_md = NoMd
    /\ interrupted = NoInterrupt
    /\ StoreIdle
    /\ RouterIdle
    /\ AuxIdle

NextMark ==
    \/ MarkComplete
    \/ SetCurrentTask

SpecMark == InitMark /\ [][NextMark]_vars

\* ------------------------------------------- AgentSelectorNode run alone
\* one run of the node on a task: prep, exec, post
Route ==
    /\ route_out = NoRoute
    /\ \E in \in RouteInputs :
          /\ route_in' = in
          /\ route_out' = RouteExec(router_rules, in)
          /\ router_rules' = AgentsAfter(router_rules, in)
    /\ UNCHANGED <<flowVars, storeVars, auxVars>>

\* the flow acts on the decision and comes back with the next task; the
\* node object, and with it self.default_rules, stays
NextTask ==
    /\ route_out # NoRoute
    /\ route_in' = NoRouteInput
    /\ route_out' = NoRoute
    /\ UNCHANGED <<flowVars, storeVars, auxVars, router_rules>>

InitRoute ==
    /\ FlowIdle
    /\ StoreIdle
    /\ RouterIdle
    /\ AuxIdle

NextRoute ==
    \/ Route
    \/ NextTask

SpecRoute == InitRoute /\ [][NextRoute]_vars

\* --------------------------------------------- ProgressGuardNode run alone
\* phases a caller may enter
Phases == {"spec", "implement", "verify", "complete", "deploy"}

\* a progress with any current phase, completed phases and completed tasks,
\* and a phase handed over in shared or not
InitGuard ==
    /\ mode = "batch"
    /\ auto_checkpoint = TRUE
    /\ self_improve = TRUE
    /\ pc = "progress_guard"
    /\ prev = "driver"
    /\ action = "start"
    /\ run = 1
    /\ \E ph \in Phases \cup {NoPhase}, done \in SUBSET Range(RequiredPhases),
          c \in [TaskIds -> 0 .. 1], ts \in {<<>>, PlainBacklog} :
          progress = [EmptyProgress EXCEPT !.current_phase = ph,
                                           !.completed_phases = done,
                                           !.completed = c,
                                           !.tasks = ts]
    /\ current_task = NoTask
    /\ printed_tasks = {}
    /\ task_filter = NoFilter
    /\ success = TRUE
    /\ delegation = NoDelegation
    /\ delegation_history = ZeroCount
    /\ phase_valid = [valid |-> TRUE, missing |-> {}]
    /\ session_file = NoSession
    /\ progress_file = NoFile
    /\ tasks_md = NoMd
    /\ interrupted = NoInterrupt
    /\ StoreIdle
    /\ RouterIdle
    /\ shared_phase \in Phases \cup {"absent"}
    /\ spec_tasks = <<>>
    /\ spec_errors = {}
    /\ spec_files = {}
    /\ session_resumed = "unset"

NextGuard == ProgressGuard

SpecGuard == InitGuard /\ [][NextGuard]_vars

\* ------------------------------------------------------ SpecificationFlow
\* an id no task of a backlog carries
UnknownId == NumTasks + 1

\* a task handed to ValidateSpecNode: id and depends_on
BuildTask ==
    [id : TaskIds,
     depends_on : {D \in SUBSET (TaskIds \cup {UnknownId}) : Cardinality(D) <= MaxDeps}]

\* shared["tasks"]: up to NumTasks tasks, ids repeated or not
BuildBacklogs == UNION {[1 .. n -> BuildTask] : n \in 0 .. NumTasks}

\* one entry of the errors list
SpecError(kind, id, dep) == [kind |-> kind, id |-> id, dep |-> dep]

\* valid_ids = set(task_ids)
ValidIds(ts) == {ts[i].id : i \in DOMAIN ts}

\* duplicates = set(x for x in task_ids if task_ids.count(x) > 1)
DuplicateErrors(ts) ==
    IF \E i, j \in DOMAIN ts : i # j /\ ts[i].id = ts[j].id
    THEN {SpecError("duplicate", NoId, NoId)}
    ELSE {}

\* for dep in deps: if dep not in valid_ids
UnknownErrors(ts) ==
    UNION {{SpecError("unknown", ts[i].id, d) : d \in ts[i].depends_on \ ValidIds(ts)} :
              i \in DOMAIN ts}

\* if task_id in deps
SelfErrors(ts) ==
    {SpecError("self", ts[i].id, ts[i].id) : i \in {j \in DOMAIN ts : ts[j].id \in ts[j].depends_on}}

\* ValidateSpecNode.exec: the errors list
ValidateExecNoSelfCheck(ts) == DuplicateErrors(ts) \cup UnknownErrors(ts)

ValidateExec(ts) == DuplicateErrors(ts) \cup UnknownErrors(ts) \cup SelfErrors(ts)

\* validate - "valid" >> save; validate - "invalid" >> None
ValidateSpec ==
    /\ pc = "validate_spec"
    /\ spec_errors' = ValidateExec(spec_tasks)
    /\ prev' = "validate_spec"
    /\ action' = IF ValidateExec(spec_tasks) = {} THEN "valid" ELSE "invalid"
    /\ pc' = IF ValidateExec(spec_tasks) = {} THEN "save_spec" ELSE FlowDone
    /\ UNCHANGED <<storeVars, routerVars, mode, auto_checkpoint, self_improve, run,
                   progress, current_task, printed_tasks, task_filter, success,
                   delegation, delegation_history, phase_valid, session_file,
                   progress_file, interrupted, tasks_md, shared_phase, spec_tasks,
                   spec_files, session_resumed>>

\* SaveSpecNode: makedirs, spec.yaml, progress.json; an IOError at any of
\* them ends exec with saved False
SaveSpec ==
    /\ pc = "save_spec"
    /\ \E written \in {{}, {"spec.yaml"}, {"spec.yaml", "progress.json"}} :
          /\ spec_files' = spec_files \cup written
          /\ action' = IF "progress.json" \in written THEN "saved" ELSE "error"
    /\ prev' = "save_spec"
    /\ pc' = FlowDone
    /\ UNCHANGED <<storeVars, routerVars, mode, auto_checkpoint, self_improve, run,
                   progress, current_task, printed_tasks, task_filter, success,
                   delegation, delegation_history, phase_valid, session_file,
                   progress_file, interrupted, tasks_md, shared_phase, spec_tasks,
                   spec_errors, session_resumed>>

\* the flow at ValidateSpecNode, with any backlog in shared["tasks"] and an
\* empty spec folder
InitBuild ==
    /\ mode = "batch"
    /\ auto_checkpoint = TRUE
    /\ self_improve = TRUE
    /\ pc = "validate_spec"
    /\ prev = "generate_tasks"
    /\ action = "generated"
    /\ run = 1
    /\ progress = EmptyProgress
    /\ current_task = NoTask
    /\ printed_tasks = {}
    /\ task_filter = NoFilter
    /\ success = TRUE
    /\ delegation = NoDelegation
    /\ delegation_history = ZeroCount
    /\ phase_valid = [valid |-> TRUE, missing |-> {}]
    /\ session_file = NoSession
    /\ progress_file = NoFile
    /\ tasks_md = NoMd
    /\ interrupted = NoInterrupt
    /\ StoreIdle
    /\ RouterIdle
    /\ shared_phase = "absent"
    /\ spec_tasks \in BuildBacklogs
    /\ spec_errors = {}
    /\ spec_files = {}
    /\ session_resumed = "unset"

NextBuild ==
    \/ ValidateSpec
    \/ SaveSpec

SpecBuild == InitBuild /\ [][NextBuild]_vars

\* ------------------- TaskSelectorNode and MarkTaskCompleteNode in turn
\* the caller runs select-task, then mark-complete on the task it returned,
\* then select-task again, until select-task returns a terminal signal
RunNext ==
    /\ \/ /\ prev = "task_selector"
          /\ action = "task_selected"
          /\ pc = "progress_guard"
          /\ pc' = "mark_complete"
       \/ /\ prev = "mark_complete"
          /\ pc # "task_selector"
          /\ pc' = "task_selector"
    /\ UNCHANGED <<storeVars, routerVars, auxVars, mode, auto_checkpoint, self_improve, run,
                   prev, action, progress, current_task, printed_tasks, task_filter,
                   success, delegation, delegation_history, phase_valid,
                   session_file, progress_file, interrupted, tasks_md>>

\* any backlog and any completed list; nothing failed, printed or filtered
InitSweep ==
    /\ mode \in Modes
    /\ auto_checkpoint \in BOOLEAN
    /\ self_improve \in BOOLEAN
    /\ pc = "task_selector"
    /\ prev = "load_expertise"
    /\ action = "loaded"
    /\ run = 1
    /\ \E b \in SelectBacklogs, c \in [TaskIds -> {0, 1}] :
          progress = [EmptyProgress EXCEPT !.tasks = b, !.completed = c]
    /\ current_task = NoTask
    /\ printed_tasks = {}
    /\ task_filter = NoFilter
    /\ success = TRUE
    /\ delegation = NoDelegation
    /\ delegation_history = ZeroCount
    /\ phase_valid = [valid |-> TRUE, missing |-> {}]
    /\ session_file = NoSession
    /\ progress_file = NoFile
    /\ tasks_md = NoMd
    /\ interrupted = NoInterrupt
    /\ StoreIdle
    /\ RouterIdle
    /\ AuxIdle

NextSweep ==
    \/ TaskSelector
    \/ MarkComplete
    \/ RunNext

SpecSweep == InitSweep /\ [][NextSweep]_vars

\* ================================================================ properties
\* select-task has just returned a task
Selected == prev = "task_selector" /\ action = "task_selected"

\* select-task has just returned no task
NotSelected == prev = "task_selector" /\ action # "task_selected"

\* positions of the backlog the selector would put in its available list
AvailableAt ==
    {i \in DOMAIN progress.tasks :
        Classify(progress.tasks[i], CompletedSet(progress), FailedIds(progress),
                 printed_tasks, mode, task_filter) = "available"}

C4_PriorityThenOrder ==
    Selected =>
        \E k \in AvailableAt :
            /\ progress.tasks[k] = current_task
            /\ \A i \in AvailableAt :
                  \/ progress.tasks[i].priority < current_task.priority
                  \/ progress.tasks[i].priority = current_task.priority /\ k <= i

\* C4 witness: two tasks were available and the later one of the backlog was
\* returned, because its priority is higher
C4_Witness ==
    /\ Selected
    /\ \E i, k \in AvailableAt :
          /\ i < k
          /\ progress.tasks[k] = current_task
          /\ progress.tasks[i].priority < current_task.priority

\* a printed task of a batch run awaits confirmation
Awaiting(t) ==
    mode = "batch" /\ t.id \in printed_tasks /\ t.id \notin CompletedSet(progress)

\* a task is pending while it is not completed and is within the filter; a
\* task awaiting confirmation stays pending
PendingAt ==
    {i \in DOMAIN progress.tasks :
        /\ progress.tasks[i].id \notin CompletedSet(progress)
        /\ Awaiting(progress.tasks[i]) \/ ~FilterRejects(task_filter, progress.tasks[i])}

C2_ReachesEnd == <>(pc = "session_end")

\* C3: after mark-complete emits completed the run passes through
\* self-improve (only when enabled), then checkpoint (only when enabled), and
\* then reaches select-task, for every combination of the two flags.
C3_BackToSelector ==
    /\ (prev = "mark_complete" /\ action = "completed") =>
          pc = IF self_improve THEN "self_improver"
               ELSE IF auto_checkpoint THEN "checkpoint" ELSE "task_selector"
    /\ (prev = "self_improver" /\ action \in {"improved", "no_changes"}) =>
          pc = IF auto_checkpoint THEN "checkpoint" ELSE "task_selector"
    /\ (prev = "checkpoint" /\ action \in {"checkpointed", "error"}) =>
          pc = "task_selector"

\* C6: select-task emits all_complete only when every task id of the backlog
\* is in progress.completed.
C6_AllCompleteMeansDone ==
    (prev = "task_selector" /\ action = "all_complete") =>
        \A i \in DOMAIN progress.tasks : progress.tasks[i].id \in CompletedSet(progress)

\* C7: whenever the external agent invocation fails (the delegation of a cli
\* run was not executed), the delegate step emits error, control returns to
\* select-task and the task is not added to progress.completed.
C7_FailureEmitsError ==
    (mode = "cli" /\ delegation.task_id # NoId /\ ~delegation.executed) =>
        /\ prev = "delegation" => action = "error" /\ pc = "task_selector"
        /\ prev \in {"delegation", "result_processor"} =>
              delegation.task_id \notin CompletedSet(progress)

\* C8: in batch mode, delegating a task emits printed, records the id in the
\* printed set and leaves progress.completed unchanged.
C8_BatchPrintsOnly ==
    (mode = "batch" /\ delegation.task_id # NoId) =>
        /\ prev = "delegation" =>
              action = "printed" /\ delegation.task_id \in printed_tasks
        /\ prev \in {"delegation", "result_processor"} =>
              delegation.task_id \notin CompletedSet(progress)

\* a backlog whose dependencies all point to earlier tasks
OrderedBacklog(ts) ==
    \A i \in DOMAIN ts : ts[i].depends_on \subseteq {ts[j].id : j \in 1 .. i - 1}

\* C9: in batch mode, when the run reaches the end step every task of the
\* backlog that is not completed has been delegated (printed), tasks that
\* depend on other pending tasks included.
C9_BatchDelegatesAll ==
    (mode = "batch" /\ pc = "session_end" /\ OrderedBacklog(progress.tasks)) =>
        \A i \in DOMAIN progress.tasks :
            progress.tasks[i].id \in
                CompletedSet(progress) \cup printed_tasks \cup Members(delegation_history)

\* C10: a run started after an interrupt with the same session id begins
\* with a progress whose completed and failed lists hold every entry they
\* held at the interrupt.
C10_ResumeKeepsProgress ==
    (interrupted.happened /\ prev = "session_start") =>
        /\ CompletedSet(interrupted.progress) \subseteq CompletedSet(progress)
        /\ \A i \in TaskIds : interrupted.progress.failed[i] <= progress.failed[i]

\* ------------------------------------------------------- FileStore claims
\* the step is taken by save() itself (not by a kill of the process)
SaveStep == (op_pc # "idle" \/ op_pc' # "idle") /\ crash_at' = "none"

\* C11: no step of save() deletes a file written by checkpoint(): every
\* checkpoint file of the backups directory is still there after the step,
\* whatever max_backups is.
C11_RotationKeepsCheckpoints ==
    [][SaveStep => \A f \in backup_dir : f.kind = "checkpoint" => f \in backup_dir']_vars

\* the rotated backups of the session
RotatedBackups == {f \in backup_dir : f.kind = "backup"}

Min(a, b) == IF a <= b THEN a ELSE b

\* C12: starting with no primary file and backups enabled, after N
\* successive save() calls (nothing else touched the files) exactly
\* min(N-1, max_backups) rotated backups exist, and they are the newest ones.
C12_BackupBound ==
    (clean /\ op_pc = "idle" /\ saves >= 1) =>
        /\ Cardinality(RotatedBackups) = Min(saves - 1, store_cfg.max_backups)
        /\ \A f \in RotatedBackups :
              f.mtime > saves - Min(saves - 1, store_cfg.max_backups)

\* C13: when the process is killed inside backup creation or backup cleanup
\* of a save(), the primary file is exactly what it was when save() was
\* called, so it still holds the content of the previous successful save.
C13_CrashInRotationKeepsPrimary ==
    crash_at \in {"backup", "cleanup"} => primary = primary_at_call

\* a kill during cleanup of a save() that found a complete primary file
C13_Witness ==
    /\ crash_at = "cleanup"
    /\ primary_at_call.state = "valid"
    /\ primary = primary_at_call
    /\ saves >= 1

\* C14: when the process is interrupted while save() writes the primary
\* file, over a primary file that held a complete earlier save, a load()
\* that follows returns the earlier context or the new one, never an empty
\* or partial one.
C14_InterruptedWriteLoadable ==
    (crash_at \in {"write", "dump"} /\ primary_at_call.state = "valid"
        /\ result.op = "load") =>
        /\ result.status = "returned"
        /\ result.value \in {primary_at_call.data, JsonDump(mem)}

\* the checkpoint files of the session
Checkpoints == {f \in backup_dir : f.kind = "checkpoint"}

\* the step is a checkpoint() call that returned True
CheckpointSucceeds ==
    /\ seq' = seq + 1
    /\ result'.op = "checkpoint"
    /\ result'.status = "true"

\* C15: every checkpoint() call that succeeds adds one snapshot file and
\* leaves every earlier checkpoint file as it was, whatever the labels and
\* the times of the calls are.
C15_CheckpointNeverOverwrites ==
    [][CheckpointSucceeds =>
          /\ Checkpoints \subseteq backup_dir'
          /\ Cardinality({f \in backup_dir' : f.kind = "checkpoint"})
                = Cardinality(Checkpoints) + 1]_vars

\* the step is a run of MarkTaskCompleteNode
MarkStep == pc = "mark_complete" /\ pc' # "mark_complete"

\* C16: a run of MarkTaskCompleteNode leaves the id of the current task in
\* `completed` exactly once, whether it was there before or not, and adds
\* exactly one completion_log entry for it (so two runs add two); the
\* other ids of `completed` and the other log entries are unchanged.
C16_IdempotentCompletion ==
    [][MarkStep =>
          /\ progress'.completed[current_task.id] = 1
          /\ progress'.completion_log[current_task.id]
                = progress.completion_log[current_task.id] + 1
          /\ \A i \in TaskIds \ {current_task.id} :
                /\ progress'.completed[i] = progress.completed[i]
                /\ progress'.completion_log[i] = progress.completion_log[i]]_vars

\* the same id has been marked twice, next to another completed id
C16_Witness ==
    /\ prev = "mark_complete"
    /\ \E i \in TaskIds :
          /\ progress.completion_log[i] = 2
          /\ progress.completed[i] = 1
          /\ \E j \in TaskIds \ {i} :
                progress.completed[j] = 1 /\ progress.completion_log[j] = 0

\* the step is a load() that follows a save() which returned True
LoadAfterSave == result.op = "save" /\ result.status = "true" /\ result'.op = "load"

C18_LoadNeverRaises ==
    [][result'.op = "load" =>
          /\ primary' = primary
          /\ backup_dir' = backup_dir
          /\ result'.status = "returned"
          /\ result'.value = IF primary.state = "valid" THEN primary.data
                             ELSE EmptyContext]_vars

\* C19: no step of save() ends the call with an exception, and a save()
\* that is creating or cleaning up backups goes on to write the primary
\* file whatever fails there.
C19_SaveNeverRaises ==
    [][SaveStep =>
          /\ result'.status # Raised
          /\ op_pc \in {"backup", "cleanup"} => op_pc' \in {"cleanup", "write"}]_vars

C21_RouterDeterminism ==
    route_out # NoRoute =>
        /\ route_out.agent = RouteExec(BuiltinAgents, route_in).agent
        /\ route_out.confidence = RouteExec(BuiltinAgents, route_in).confidence

\* the last invocation found no override directive and scored the agents
Scoring == route_out # NoRoute /\ FirstWellFormed(route_in.description.directives, 1) = NoOverride

\* the score as stated: 10 per file pattern that matches one of the files,
\* 5 per file pattern found in the description, 3 per keyword found, 2 per
\* domain among the expertise domains
StatedScore(rule, in) ==
    10 * Cardinality({pat \in rule.file_patterns :
                         \E f \in in.files : PatternMatchesFile(pat, f)})
    + 5 * Cardinality({pat \in rule.file_patterns :
                          PatternInDescription(pat, in.description.words)})
    + 3 * Cardinality({kw \in rule.keywords :
                          KeywordInDescription(kw, in.description.words)})
    + 2 * Cardinality(rule.domains \cap in.expertise_domains)

\* C22: absent an override, the scores the router records are the stated
\* score of every agent of the rules that the allow-list admits, and of no
\* other agent.
C22_ScoreFormula ==
    Scoring =>
        route_out.scores =
            {[name |-> router_rules[k].name, score |-> StatedScore(router_rules[k], route_in)] :
                 k \in {j \in DOMAIN router_rules :
                           route_in.available = {}
                           \/ router_rules[j].name \in route_in.available}}

\* the highest score the last invocation recorded
TopScore == CHOOSE n \in {e.score : e \in route_out.scores} :
                \A e \in route_out.scores : e.score <= n

\* C23: absent an override and with at least one agent scored, the router
\* returns an agent whose score s is the maximum, with confidence high for
\* s >= 10, medium for 5..9 and low for 1..4; for s = 0 it returns the
\* configured default agent with confidence low.
C23_TierOfTopScore ==
    (Scoring /\ route_out.scores # {}) =>
        /\ TopScore > 0 =>
              [name |-> route_out.agent, score |-> TopScore] \in route_out.scores
        /\ TopScore >= 10 => route_out.confidence = "high"
        /\ (TopScore >= 5 /\ TopScore <= 9) => route_out.confidence = "medium"
        /\ (TopScore >= 1 /\ TopScore <= 4) => route_out.confidence = "low"
        /\ TopScore = 0 =>
              /\ route_out.confidence = "low"
              /\ route_out.agent = MergedDefault(route_in.routing_file)

\* three keyword hits and nothing else: score 9, medium, frontend-specialist
C23_Witness ==
    /\ Scoring
    /\ route_in.description.words = {"react", "component", "style"}
    /\ route_in.files = {}
    /\ route_in.expertise_domains = {}
    /\ TopScore = 9
    /\ route_out.agent = "frontend-specialist"
    /\ route_out.confidence = "medium"

\* C24: absent an override, when no agent scores above zero (no agent being
\* scored at all included), the router returns the configured default agent,
\* which is the default_agent of routing.yaml when it has one, with
\* confidence low.
C24_DefaultWhenNoMatch ==
    (Scoring /\ \A e \in route_out.scores : e.score = 0) =>
        /\ route_out.agent = MergedDefault(route_in.routing_file)
        /\ route_out.confidence = "low"

\* ------------------------------------------------------ phase guard claims
\* the phases that precede `ph` in the required list and are not completed
StatedMissing(ph, donePhases) ==
    {RequiredPhases[i] : i \in {j \in DOMAIN RequiredPhases :
        /\ RequiredPhases[j] \notin donePhases
        /\ \E k \in DOMAIN RequiredPhases : RequiredPhases[k] = ph /\ j < k}}

\* C25: a run of the phase guard emits valid iff no required phase that
\* precedes the entered phase is missing from completed_phases, and then
\* sets progress.current_phase to the entered phase; otherwise it emits
\* blocked, reports exactly the missing phases and leaves
\* progress.current_phase as it was.
C25_GuardValidIffNoneMissing ==
    [][pc = "progress_guard" =>
          LET entered == Entered(shared_phase, progress)
              missing == StatedMissing(entered, progress.completed_phases)
          IN  IF missing = {}
              THEN /\ action' = "valid"
                   /\ progress'.current_phase = entered
              ELSE /\ action' = "blocked"
                   /\ phase_valid'.missing = missing
                   /\ progress'.current_phase = progress.current_phase]_vars

\* C26: entering the phase "complete" with fewer tasks completed than the
\* backlog holds ends with the outcome valid: the guard neither blocks nor
\* fails.
C26_CompleteIsSoftGate ==
    [][(pc = "progress_guard" /\ Entered(shared_phase, progress) = "complete"
          /\ Cardinality(CompletedSet(progress)) < Len(progress.tasks)) =>
          action' = "valid"]_vars

\* ------------------------------------------------- backlog construction
\* the backlog has a repeated id, a dependency on an id no task carries, or
\* a task that depends on itself
Defective(ts) ==
    \/ \E i, j \in DOMAIN ts : i # j /\ ts[i].id = ts[j].id
    \/ \E i \in DOMAIN ts : \E d \in ts[i].depends_on : \A j \in DOMAIN ts : ts[j].id # d
    \/ \E i \in DOMAIN ts : ts[i].id \in ts[i].depends_on

\* C27: the flow writes spec files only after a validation without errors;
\* a backlog with a duplicate id, an unknown dependency or a self-dependency
\* gets a non-empty error list and the outcome invalid, and no file is
\* written.
C27_DefectiveBacklogNotSaved ==
    /\ spec_files # {} => (spec_errors = {} /\ ~Defective(spec_tasks))
    /\ (Defective(spec_tasks) /\ pc # "validate_spec") =>
          /\ spec_errors # {}
          /\ action = "invalid"
          /\ pc = FlowDone
          /\ spec_files = {}

\* a backlog whose only defect is a task that depends on itself was rejected
C27_Witness ==
    /\ pc = FlowDone
    /\ prev = "validate_spec"
    /\ spec_errors # {}
    /\ \A e \in spec_errors : e.kind = "self"
    /\ spec_files = {}

\* ------------------------------------------------ SessionStartNode alone
\* the node is run on a sessions directory whose <session_id>.json is absent,
\* cut short, not UTF-8, not readable, or holds a saved context
SessionFiles ==
    {AbsentFile, PartialFile}
    \cup {[state |-> st, data |-> EmptyContext] : st \in {"undecodable", "unreadable"}}
    \cup {ValidFile(c) : c \in Contexts}

InitResume ==
    /\ mode \in Modes
    /\ auto_checkpoint = TRUE
    /\ self_improve = TRUE
    /\ pc = "session_start"
    /\ prev = "driver"
    /\ action = "start"
    /\ run = 1
    /\ progress = EmptyProgress
    /\ current_task = NoTask
    /\ printed_tasks = {}
    /\ task_filter = NoFilter
    /\ success = TRUE
    /\ delegation = NoDelegation
    /\ delegation_history = ZeroCount
    /\ phase_valid = [valid |-> TRUE, missing |-> {}]
    /\ session_file = NoSession
    /\ \E md \in MdChoices, ph \in FlowPhases :
          /\ tasks_md = md
          /\ progress_file = [exists |-> TRUE,
                              content |-> [EmptyProgress EXCEPT
                                              !.tasks = PlainBacklog,
                                              !.current_phase = ph]]
    /\ interrupted = NoInterrupt
    /\ clock = 0
    /\ seq = 0
    /\ store_cfg = [auto_backup |-> TRUE, max_backups |-> 0]
    /\ primary \in SessionFiles
    /\ backup_dir = {}
    /\ mem = EmptyContext
    /\ op_pc = "idle"
    /\ result = NoResult
    /\ primary_at_call = AbsentFile
    /\ crash_at = "none"
    /\ saves = 0
    /\ clean = TRUE
    /\ RouterIdle
    /\ AuxIdle

NextResume == SessionStart

SpecResume == InitResume /\ [][NextResume]_vars

\* ------------------------------------------------------- progress claims
\* a step taken by a node of the flow that keeps every completed id and every
\* recorded failure
OnlyGrowStep ==
    pc \in FlowNodes =>
        (CompletedSet(progress) \subseteq CompletedSet(progress')
         /\ (\A i \in TaskIds : progress.failed[i] <= progress'.failed[i]))

\* C28: no step of a run (session start, record result, mark complete,
\* checkpoint, end, and every other node) removes an id from
\* progress.completed or a recorded failure from progress.failed.
C28_CompletedFailedOnlyGrow == [][OnlyGrowStep]_vars

\* parse_tasks_md: every task carries the phase heading it stands under; the
\* first task stands under "implement", the later ones under "verify"
PhaseOf(id) == IF id = 1 THEN "implement" ELSE "verify"

\* a step of TaskSelectorNode
SelectStep == pc = "task_selector" /\ prev' = "task_selector"

\* C29: when the selector returns a task, progress.current_task becomes that
\* task's id and progress.current_phase becomes that task's phase; when it
\* returns a terminal signal both fields stay as they were.
SelectWritesTaskAndPhase ==
    SelectStep =>
        IF action' = "task_selected"
        THEN (progress'.current_task = current_task'.id
              /\ progress'.current_phase = PhaseOf(current_task'.id))
        ELSE (progress'.current_task = progress.current_task
              /\ progress'.current_phase = progress.current_phase)

C29_SelectWritesTaskAndPhase == [][SelectWritesTaskAndPhase]_vars

\* C30: after the session-start step, session.resumed is true and the outcome
\* is `resumed` exactly when the session file exists and parses; with the file
\* missing or corrupt, session.resumed is false and the outcome is `fresh`.
C30_ResumedIffFileParses ==
    prev = "session_start" =>
        IF SessionFileState = "valid"
        THEN session_resumed = "true" /\ action = "resumed"
        ELSE session_resumed = "false" /\ action = "fresh"

\* --------------------------------------------------- selection claims
\* ids marked complete by mark-complete in this behaviour
Marked == Members(progress.completion_log)

\* the backlog of the scenario: task 1 of the higher priority, task 2 of the
\* lower priority depending on task 1
ScenarioBacklog ==
    <<[id |-> 1, priority |-> 1, depends_on |-> {}, retry |-> FALSE],
      [id |-> 2, priority |-> 0, depends_on |-> {1}, retry |-> FALSE]>>

\* C31: a task whose dependencies have all been marked complete is selectable
\* on the select-task call that follows: that call returns a task, and either
\* this one or one that sorts before it. For the backlog [task 1, task 2
\* depending on 1] started with nothing completed, the calls return task 1,
\* then task 2, then all_complete.
C31_UnblockedOnNextCall ==
    prev = "task_selector" =>
        /\ \A i \in DOMAIN progress.tasks :
              LET t == progress.tasks[i]
              IN (/\ t.id \notin CompletedSet(progress)
                  /\ t.depends_on # {}
                  /\ t.depends_on \subseteq CompletedSet(progress)
                  /\ t.depends_on \cap Marked # {})
                 => (action = "task_selected" /\ ~KeyLess(progress.tasks, t, current_task))
        /\ (progress.tasks = ScenarioBacklog /\ CompletedSet(progress) = Marked)
              => (/\ Marked = {} => (action = "task_selected" /\ current_task.id = 1)
                  /\ Marked = {1} => (action = "task_selected" /\ current_task.id = 2)
                  /\ Marked = {1, 2} => action = "all_complete")

\* C31 witness: in the scenario, task 2 is returned by the call that follows
\* the completion of task 1
C31_Witness ==
    /\ Selected
    /\ progress.tasks = ScenarioBacklog
    /\ current_task.id = 2
    /\ Marked = {1}
    /\ CompletedSet(progress) = {1}

\* a select-task step taken right after the phase guard emitted `blocked`
SelectAfterBlocked ==
    /\ pc = "task_selector"
    /\ prev = "progress_guard"
    /\ action = "blocked"
    /\ prev' = "task_selector"

\* such a step returns a terminal signal or a task other than the blocked one
MovesOn ==
    SelectAfterBlocked =>
        (action' = "task_selected" => current_task'.id # current_task.id)

\* C32: after the phase guard emits `blocked` for the selected task, the next
\* select-task step selects a different task or emits a terminal signal; it
\* does not return the same task again.
C32_BlockedMovesOn == [][MovesOn]_vars

\* C33: select-task never returns a task whose id is in completed, and never
\* one whose id is in failed unless the task's retry flag is set; a failed
\* task with retry set that nothing else holds back is selectable: the call
\* returns a task, this one or one that sorts before it.
C33_SkipsCompletedAndFailed ==
    /\ Selected =>
          /\ current_task.id \notin CompletedSet(progress)
          /\ current_task.id \in FailedIds(progress) => current_task.retry
    /\ prev = "task_selector" =>
          \A i \in DOMAIN progress.tasks :
              LET t == progress.tasks[i]
              IN (/\ t.id \in FailedIds(progress)
                  /\ t.retry
                  /\ t.id \notin CompletedSet(progress)
                  /\ ~(mode = "batch" /\ t.id \in printed_tasks)
                  /\ ~FilterRejects(task_filter, t)
                  /\ t.depends_on \subseteq CompletedSet(progress))
                 => (Selected /\ ~KeyLess(progress.tasks, t, current_task))

\* C33 witness: a failed task with retry set was returned while another task
\* of the backlog, failed without retry, was passed over
C33_Witness ==
    /\ Selected
    /\ current_task.id \in FailedIds(progress)
    /\ current_task.retry
    /\ \E i \in DOMAIN progress.tasks :
          /\ progress.tasks[i].id \in FailedIds(progress)
          /\ progress.tasks[i].id \notin CompletedSet(progress)
          /\ ~progress.tasks[i].retry

\* ------------------------------------------------------ delegation claims
\* a step of the delegation node in batch mode
BatchDelegation == mode = "batch" /\ pc = "delegation" /\ prev' = "delegation"

\* the task delegated is not in the printed set, is not the task this run
\* delegated last, and is in the printed set afterwards
DelegatesOnce ==
    BatchDelegation =>
        /\ current_task.id \notin printed_tasks
        /\ current_task.id # delegation.task_id
        /\ current_task.id \in printed_tasks'

\* a select-task step in batch mode returns no task of the printed set
SelectSkipsPrinted ==
    (mode = "batch" /\ SelectStep /\ action' = "task_selected")
        => current_task'.id \notin printed_tasks

\* C34: in batch mode no task id is delegated more than once in a run: a
\* delegated id enters the printed set, and select-task never returns a task
\* of the printed set.
C34_BatchDelegatesOnce == [][DelegatesOnce /\ SelectSkipsPrinted]_vars

\* a step of the delegation node in print mode
PrintDelegation == mode = "print" /\ pc = "delegation" /\ prev' = "delegation"

\* the first delegation of the run emits print_complete and hands over to the
\* end step
PrintStopsAfterOne ==
    PrintDelegation =>
        /\ delegation.task_id = NoId
        /\ action' = "print_complete"
        /\ pc' = "session_end"

\* no step of a print run puts the delegated task in progress.completed
PrintLeavesPending ==
    (mode = "print" /\ pc \in FlowNodes /\ delegation'.task_id # NoId)
        => delegation'.task_id \notin CompletedSet(progress')

\* C35: in print mode the delegate step emits print_complete after the first
\* delegation and the run goes straight to the end step: one task is
\* delegated per run and it is not marked completed.
C35_PrintSingleShot == [][PrintStopsAfterOne /\ PrintLeavesPending]_vars

\* ------------------------------------------------------------ flow claims
\* C36: every outcome a node of the implementation flow emits has an edge,
\* whatever the delegation mode and the flags: flow.run returns only after
\* session end, whose outcomes are the terminal ones.
C36_EveryOutcomeHasEdge ==
    pc = FlowDone => prev = "session_end"

\* flow.run returns on this step
RunStops == pc \in FlowNodes /\ pc' = FlowDone

\* the step that ends the run is session end, which has written the session
\* file and the progress file unless the write failed; session end is never
\* followed by another node
EndsAtSessionEnd ==
    /\ RunStops =>
          /\ pc = "session_end"
          /\ action' = "saved" =>
                /\ session_file' = NodeSession
                /\ progress_file' = [exists |-> TRUE, content |-> progress]
    /\ pc = "session_end" => pc' \notin FlowNodes

\* C37: every run of the implementation flow that stops does so at the end
\* step: session end runs once, as the last step of the run, and writes the
\* session file and the progress file, for every mode and flag combination.
C37_StopsAtSessionEnd == [][EndsAtSessionEnd]_vars

\* ------------------------------------------------------- routing claims
\* names of the agents whose score is the maximum
TopNames == {e.name : e \in {x \in route_out.scores : x.score = TopScore}}

\* place of an agent in the rules the decision was made with
PositionOf(name) == CHOOSE k \in DOMAIN router_rules : router_rules[k].name = name

\* C38: when several agents share the maximum positive score, the router
\* returns the one whose rule comes first in declaration order: the built-in
\* rules keep their declared places (a rule of routing.yaml with the name of a
\* built-in rule takes that rule's place), other rules come after them.
C38_TieGoesToFirstRule ==
    (Scoring /\ route_out.scores # {}) =>
        /\ \A k \in DOMAIN BuiltinAgents : router_rules[k].name = BuiltinAgents[k].name
        /\ TopScore > 0 =>
              /\ route_out.agent \in TopNames
              /\ \A n \in TopNames : PositionOf(route_out.agent) <= PositionOf(n)

\* C38 witness: frontend-specialist and api-specialist both score 10, and
\* frontend-specialist, declared first, is returned
C38_Witness ==
    /\ Scoring
    /\ TopScore = 10
    /\ {"frontend-specialist", "api-specialist"} \subseteq TopNames
    /\ route_out.agent = "frontend-specialist"

\* ---------------------------------------------------- validation claims
\* ids reached from the ids of S by following depends_on at most n times
RECURSIVE DependsOnWithin(_, _, _)
DependsOnWithin(ts, S, n) ==
    IF n = 0 THEN S
    ELSE DependsOnWithin(ts,
                         S \cup UNION {ts[i].depends_on : i \in {j \in DOMAIN ts : ts[j].id \in S}},
                         n - 1)

\* some task depends on itself, directly or through other tasks
HasCycle(ts) ==
    \E i \in DOMAIN ts : ts[i].id \in DependsOnWithin(ts, ts[i].depends_on, Len(ts))

\* C39: validation rejects every backlog whose depends_on relation has a
\* cycle of any length: such a backlog yields the outcome invalid and is not
\* saved.
C39_CyclesRejected ==
    (HasCycle(spec_tasks) /\ pc # "validate_spec") =>
        (spec_errors # {} /\ prev = "validate_spec" /\ action = "invalid")

\* ------------------------------------------------------- rotation claims
\* no file of another session leaves backups/ on this step
KeepsForeignFiles == \A f \in backup_dir : f.kind = "foreign" => f \in backup_dir'

\* C40: the rotation done by save() for one session id never deletes a backup
\* or checkpoint file of another session id under the same base path, also
\* when the other id is this id followed by "_" and more characters.
C40_RotationKeepsOtherSessions == [][KeepsForeignFiles]_vars

====
